---------------------------- MODULE Spec2Model ----------------------------
(***************************************************************************)
(* Value iteration agent of mdp_framework                                  *)
(* (src/mdp_framework/agent/value_iteration_error_rate.py).                *)
(*                                                                         *)
(* Agent.__init__ runs the whole solve: it zero-fills valueUtility, runs   *)
(* sweeps while the largest change of a non-final state exceeds            *)
(* maximumErrorRate * (1 - discountFactor) / discountFactor, then builds   *)
(* the policy.  The model follows the constructor statement by statement;  *)
(* one action is one pass through a loop body or one loop test.            *)
(*                                                                         *)
(* Python floats are modelled as exact rationals extended with +inf, -inf  *)
(* and nan (the constructor starts from float("inf") and float("-inf")).   *)
(* Rounding of IEEE doubles is not modelled.                               *)
(*                                                                         *)
(* _ObjectiveFunction of ailib                                             *)
(* (src/ailib/optimize/functions/unconstrained.py): the evaluation         *)
(* counters and logs kept by __call__, gradient and hessian.  An input     *)
(* array is modelled by its shape; the values of the points play no part   *)
(* in the counters and logs.                                               *)
(***************************************************************************)
EXTENDS Integers, Sequences, FiniteSets, TLC

\* ------------------------------------------------------------------------
\* Bounds of the model
\* ------------------------------------------------------------------------

\* Largest number of sweeps a modelled construction may execute.
MaxIter == 4

\* Largest value of an evaluation counter and largest length of an
\* evaluation log of an objective function.
MaxEvals == 3

\* Largest number of columns (points) of a 2-D input of an objective function.
MaxCols == 2

\* ------------------------------------------------------------------------
\* Floats: [k, n, d] with k in {"fin", "+inf", "-inf", "nan"}; a finite
\* value is the fraction n/d in lowest terms, d > 0.
\* ------------------------------------------------------------------------

\* An operator argument is evaluated again at each of its uses.  GCD and the
\* float operations below bind their arguments to values first (x \in {e}),
\* so that a nested expression is evaluated once.
RECURSIVE GCD(_, _)
GCD(a, b) ==
    IF b = 0 THEN a
    ELSE CHOOSE g \in {GCD(x, y) : x \in {b}, y \in {a % b}} : TRUE

IntAbs(a) == IF a < 0 THEN -a ELSE a

Fin(n, d) ==
    CHOOSE r \in {[k |-> "fin", n |-> (s * nn) \div g, d |-> (s * dd) \div g] :
                     nn \in {n}, dd \in {d},
                     s \in {IF d < 0 THEN -1 ELSE 1},
                     g \in {GCD(IntAbs(n), IntAbs(d))}} : TRUE

PosInf == [k |-> "+inf", n |-> 0, d |-> 1]
NegInf == [k |-> "-inf", n |-> 0, d |-> 1]
NaN    == [k |-> "nan", n |-> 0, d |-> 1]
Zero   == [k |-> "fin", n |-> 0, d |-> 1]
One    == [k |-> "fin", n |-> 1, d |-> 1]

\* Sign of a float that is not nan: -1, 0 or 1.
Sgn(x) ==
    CASE x.k = "+inf" -> 1
      [] x.k = "-inf" -> -1
      [] OTHER -> IF x.n > 0 THEN 1 ELSE IF x.n < 0 THEN -1 ELSE 0

fNegV(x) ==
    CASE x.k = "fin" -> [x EXCEPT !.n = -x.n]
      [] x.k = "+inf" -> NegInf
      [] x.k = "-inf" -> PosInf
      [] OTHER -> NaN

fNeg(x) == CHOOSE r \in {fNegV(a) : a \in {x}} : TRUE

fAbsV(x) ==
    CASE x.k = "fin" -> [x EXCEPT !.n = IntAbs(x.n)]
      [] x.k = "nan" -> NaN
      [] OTHER -> PosInf

fAbs(x) == CHOOSE r \in {fAbsV(a) : a \in {x}} : TRUE

fAddV(x, y) ==
    CASE x.k = "nan" \/ y.k = "nan" -> NaN
      [] x.k = "fin" /\ y.k = "fin" ->
            LET g == GCD(x.d, y.d)
            IN  Fin(x.n * (y.d \div g) + y.n * (x.d \div g), x.d * (y.d \div g))
      [] x.k = "fin" -> y
      [] y.k = "fin" -> x
      [] OTHER -> IF x.k = y.k THEN x ELSE NaN

fAdd(x, y) == CHOOSE r \in {fAddV(a, b) : a \in {x}, b \in {y}} : TRUE

fSub(x, y) == fAdd(x, fNeg(y))

fMulV(x, y) ==
    CASE x.k = "nan" \/ y.k = "nan" -> NaN
      [] x.k = "fin" /\ y.k = "fin" ->
            LET g1 == GCD(IntAbs(x.n), y.d)
                g2 == GCD(IntAbs(y.n), x.d)
            IN  Fin((x.n \div g1) * (y.n \div g2), (x.d \div g2) * (y.d \div g1))
      [] OTHER ->
            LET s == Sgn(x) * Sgn(y)
            IN  IF s = 0 THEN NaN ELSE IF s > 0 THEN PosInf ELSE NegInf

fMul(x, y) == CHOOSE r \in {fMulV(a, b) : a \in {x}, b \in {y}} : TRUE

\* x / y for finite x and y, y # 0 (Python raises ZeroDivisionError on y = 0).
fDiv(x, y) == fMul(x, Fin(y.d, y.n))

\* x > y; False as soon as one side is nan.
fGtV(x, y) ==
    CASE x.k = "nan" \/ y.k = "nan" -> FALSE
      [] x.k = "fin" /\ y.k = "fin" ->
            LET g == GCD(x.d, y.d)
            IN  x.n * (y.d \div g) > y.n * (x.d \div g)
      [] x.k = "+inf" -> y.k # "+inf"
      [] x.k = "-inf" -> FALSE
      [] OTHER -> y.k = "-inf"

fGt(x, y) == \E a \in {x}, b \in {y} : fGtV(a, b)

\* ------------------------------------------------------------------------
\* The environment (the constructor's first argument) and the two numeric
\* arguments.  They are inputs: chosen in Init, never changed.
\* ------------------------------------------------------------------------

States == {"s0", "s1"}

\* Enumeration orders an environment may give to its action set.
ActionOrders == {<< >>, <<"a">>, <<"a", "b">>}

\* transition(state, action) values: probability rows over the states.
Half == Fin(1, 2)
TransitionRows ==
    { [s \in States |-> IF s = "s0" THEN One ELSE Zero],
      [s \in States |-> IF s = "s1" THEN One ELSE Zero],
      [s \in States |-> Half] }

RewardValues == {Fin(-1, 1), Zero, Fin(10, 1)}
FinalStateSets == {{}, {"s1"}, {"s0", "s1"}}
DiscountValues == {Fin(-1, 2), Zero, Fin(1, 2), Fin(9, 10), One}
ErrorRateValues == {Fin(-1, 100), Zero, Fin(1, 100), Fin(2, 1)}

\* Rows outside the data contract: one whose probabilities sum to 0.5, and
\* a dict with no entry for s0.
SubStochasticRow == [s \in States |-> IF s = "s0" THEN Half ELSE Zero]
PartialRow == [s \in {"s1"} |-> One]

\* A second family of inputs: one action, rows in or out of the contract,
\* valid discount factors and error rates.
DataRows == TransitionRows \cup {SubStochasticRow, PartialRow}
DataActionOrders == {<<"a">>}
DataDiscountValues == {Fin(1, 2), Fin(9, 10)}
DataErrorRateValues == {Fin(1, 100), Fin(2, 1)}

\* A state no environment of the model has in its stateSet.
UnknownState == "s9"

Range(seq) == {seq[i] : i \in 1..Len(seq)}

VARIABLES
    stateSet,               \* environment.stateSet, in enumeration order
    actionSet,              \* environment.actionSet, in enumeration order
    finalStateSet,          \* environment.finalStateSet
    reward,                 \* environment.reward(state)
    transition,             \* environment.transition(state, action)
    discountFactor,         \* self.discountFactor
    maximumErrorRate,       \* self.maximumErrorRate
    valueUtility,           \* self.valueUtility
    next_value_utility,     \* next_value_utility (V')
    maximum_change_utility, \* maximum_change_utility (delta)
    iteration,              \* iteration
    policy,                 \* self.policy
    displayed,              \* calls received by environment.displayValueFunction
    idx,                    \* position of the running for loop in stateSet
    pc,                     \* position of the constructor
    raised,                 \* exception that ended the constructor, or "none"
    firstRun,               \* results of an earlier construction on the same inputs
    lastCall,               \* the last getAction call and how it ended, or << >>
    objective,              \* an _ObjectiveFunction object (a Sphere)
    history                 \* what the calls made on objective amount to

envVars == <<stateSet, actionSet, finalStateSet, reward, transition,
             discountFactor, maximumErrorRate>>
vars == <<stateSet, actionSet, finalStateSet, reward, transition,
          discountFactor, maximumErrorRate, valueUtility, next_value_utility,
          maximum_change_utility, iteration, policy, displayed, idx, pc, raised,
          firstRun, lastCall, objective, history>>
agentVars == <<stateSet, actionSet, finalStateSet, reward, transition,
               discountFactor, maximumErrorRate, valueUtility, next_value_utility,
               maximum_change_utility, iteration, policy, displayed, idx, pc, raised,
               firstRun, lastCall>>
objVars == <<objective, history>>

\* A dict that has no entry yet.
EmptyDict == << >>

\* d[key] = value on a dict.
SetItem(d, key, value) ==
    [x \in (DOMAIN d) \cup {key} |-> IF x = key THEN value ELSE d[x]]

\* ------------------------------------------------------------------------
\* actionMaximumExpectedUtility
\* ------------------------------------------------------------------------

\* self.valueUtility[next_state], the read of line 93.
UtilityOf(next_state) == valueUtility[next_state]

\* The inner for loop: the running sum after the first i states of stateSet.
RECURSIVE ExpectedActionUtility(_, _, _)
ExpectedActionUtility(state, action, i) ==
    IF i = 0 THEN Zero
    ELSE fAdd(ExpectedActionUtility(state, action, i - 1),
              fMul(transition[<<state, action>>][stateSet[i]],
                   UtilityOf(stateSet[i])))

\* Mutant of Better: >= instead of >, a later action wins a tie.
BetterOrEqual(expected_action_utility, best_action_utility) ==
    ~fGt(best_action_utility, expected_action_utility)

\* Mutant of Better: the comparison is lost, every action replaces the best.
BetterAlways(expected_action_utility, best_action_utility) == TRUE

\* if expected_action_utility > best_action_utility
Better(expected_action_utility, best_action_utility) ==
    fGt(expected_action_utility, best_action_utility)

\* The outer for loop: (best_action, best_action_utility) after the first j
\* actions of actionSet.
RECURSIVE BestAfter(_, _)
BestAfter(state, j) ==
    IF j = 0 THEN [action |-> "None", utility |-> NegInf]
    ELSE LET best == BestAfter(state, j - 1)
             u == ExpectedActionUtility(state, actionSet[j], Len(stateSet))
         IN  IF Better(u, best.utility)
             THEN [action |-> actionSet[j], utility |-> u]
             ELSE best

actionMaximumExpectedUtility(state) == BestAfter(state, Len(actionSet))

\* Line 93 indexes transition(state, action) with every state of stateSet,
\* for every action: on a dict, a missing entry raises KeyError.
MissingKey(state) ==
    \E action \in Range(actionSet) : \E next_state \in Range(stateSet) :
        next_state \notin DOMAIN transition[<<state, action>>]

\* ------------------------------------------------------------------------
\* _ObjectiveFunction (Sphere)
\* ------------------------------------------------------------------------

\* ndim of the modelled Sphere objects.
Dimensions == {1, 2}

\* x.shape of the inputs: 0-D, 1-D, 2-D and 3-D arrays.
Shapes ==
    {<< >>}
    \cup {<<rows>> : rows \in Dimensions}
    \cup {<<rows, cols>> : rows \in Dimensions, cols \in 0..MaxCols}
    \cup {<<rows, cols, 1>> : rows \in Dimensions, cols \in {1}}

\* Number of points that an input holds: one for a 0-D or 1-D array, one
\* per column for a 2-D array.
Points(x) == IF Len(x) = 2 THEN x[2] ELSE 1

\* Lines 46-63 and 390-405: a new Sphere(ndim).
NewObjective(ndim) ==
    [ndim |-> ndim,
     num_eval |-> 0,
     num_gradient_eval |-> 0,
     num_hessian_eval |-> 0,
     do_eval_logs |-> FALSE,
     eval_logs_dict |-> [x |-> << >>, fx |-> << >>]]

\* No call has been made: evals, gradients and hessians count the points
\* of the successful calls since the last reset_eval_counters, logged the
\* points evaluated with do_eval_logs set since the last reset_eval_logs;
\* last is the last operation, its input and the exception it raised.
NewHistory ==
    [evals |-> 0, gradients |-> 0, hessians |-> 0, logged |-> 0,
     last |-> [op |-> "__init__", x |-> << >>, raised |-> "none"]]

Last(op, x, exception) == [op |-> op, x |-> x, raised |-> exception]

\* x.T.shape
Transpose(x) == [i \in 1..Len(x) |-> x[Len(x) + 1 - i]]

\* The items that list.extend takes from an array of this shape (one per
\* index of the first axis), as shapes.
Items(shape) == [i \in 1..shape[1] |-> Tail(shape)]

\* Line 340: the shape of np.sum(x**2.0, axis=0).
SphereShape(x) == IF Len(x) = 0 THEN << >> ELSE Tail(x)

\* Lines 123-125: the first dimension is checked when x.ndim > 0.
WrongRows(x) == Len(x) > 0 /\ x[1] # objective.ndim

\* Mutant of EvalIncrement: a call counts for one evaluation.
EvalIncrementOne(x) == 1

\* Lines 129-132: what a call adds to num_eval (x.ndim is 0, 1 or 2).
EvalIncrement(x) == IF Len(x) = 0 \/ Len(x) = 1 THEN 1 ELSE x[2]

\* Mutant of LoggedInputs: extend(x) in place of extend(x.T).
LoggedInputsNoTranspose(x, y) ==
    IF Len(y) = 0 THEN <<x>> ELSE Items(x)

\* Lines 149-152: what a call adds to eval_logs_dict['x'] (y.ndim is 0 or 1).
LoggedInputs(x, y) ==
    IF Len(y) = 0 THEN <<x>> ELSE Items(Transpose(x))

\* Lines 156-159: what a call adds to eval_logs_dict['fx'].
LoggedOutputs(y) ==
    IF Len(y) = 0 THEN <<y>> ELSE Items(y)

\* Lines 91-163: a call that returns.
Call ==
    \E x \in Shapes :
        /\ ~WrongRows(x)
        /\ Len(x) <= 2
        /\ objective.num_eval + EvalIncrement(x) <= MaxEvals
        /\ LET y == SphereShape(x)
               logs == objective.eval_logs_dict
               new_logs == IF objective.do_eval_logs
                           THEN [x |-> logs.x \o LoggedInputs(x, y),
                                 fx |-> logs.fx \o LoggedOutputs(y)]
                           ELSE logs
           IN  /\ Len(new_logs.x) <= MaxEvals
               /\ Len(new_logs.fx) <= MaxEvals
               /\ objective' = [objective EXCEPT
                                   !.num_eval = @ + EvalIncrement(x),
                                   !.eval_logs_dict = new_logs]
        /\ history' = [history EXCEPT
                          !.evals = @ + Points(x),
                          !.logged = @ + (IF objective.do_eval_logs THEN Points(x) ELSE 0),
                          !.last = Last("__call__", x, "none")]
        /\ UNCHANGED agentVars

\* Mutant of CallRejected: the counter is updated before the shape is
\* checked.
CallRejectedCounted ==
    \E x \in Shapes :
        /\ WrongRows(x) \/ Len(x) > 2
        /\ objective.num_eval + 1 <= MaxEvals
        /\ objective' = [objective EXCEPT !.num_eval = @ + 1]
        /\ history' = [history EXCEPT !.last = Last("__call__", x, "Exception")]
        /\ UNCHANGED agentVars

\* Lines 123-125 and 133-134: a call that raises for the shape of x.
CallRejected ==
    \E x \in Shapes :
        /\ WrongRows(x) \/ Len(x) > 2
        /\ history' = [history EXCEPT !.last = Last("__call__", x, "Exception")]
        /\ UNCHANGED <<objective, agentVars>>

\* Lines 186-187, 195-196 and 226-227, 235-236: gradient and hessian read
\* x.shape[0] whatever x.ndim is, then accept 1-D and 2-D arrays only.
DerivativeRejects(x) ==
    IF Len(x) = 0 THEN TRUE ELSE (x[1] # objective.ndim \/ Len(x) > 2)

\* Lines 166-204: a gradient call that returns.
Gradient ==
    \E x \in Shapes :
        /\ Len(x) \in {1, 2}
        /\ x[1] = objective.ndim
        /\ objective.num_gradient_eval + Points(x) <= MaxEvals
        /\ objective' = [objective EXCEPT
                            !.num_gradient_eval = @ + (IF Len(x) = 1 THEN 1 ELSE x[2])]
        /\ history' = [history EXCEPT
                          !.gradients = @ + Points(x),
                          !.last = Last("gradient", x, "none")]
        /\ UNCHANGED agentVars

\* Lines 186-187 and 195-196: a gradient call that raises; x.shape[0] of a
\* 0-D array is an IndexError.
GradientRejected ==
    \E x \in Shapes :
        /\ DerivativeRejects(x)
        /\ history' = [history EXCEPT
                          !.last = Last("gradient", x,
                                        IF Len(x) = 0 THEN "IndexError" ELSE "Exception")]
        /\ UNCHANGED <<objective, agentVars>>

\* Lines 207-244: a hessian call that returns.
Hessian ==
    \E x \in Shapes :
        /\ Len(x) \in {1, 2}
        /\ x[1] = objective.ndim
        /\ objective.num_hessian_eval + Points(x) <= MaxEvals
        /\ objective' = [objective EXCEPT
                            !.num_hessian_eval = @ + (IF Len(x) = 1 THEN 1 ELSE x[2])]
        /\ history' = [history EXCEPT
                          !.hessians = @ + Points(x),
                          !.last = Last("hessian", x, "none")]
        /\ UNCHANGED agentVars

\* Lines 226-227 and 235-236: a hessian call that raises.
HessianRejected ==
    \E x \in Shapes :
        /\ DerivativeRejects(x)
        /\ history' = [history EXCEPT
                          !.last = Last("hessian", x,
                                        IF Len(x) = 0 THEN "IndexError" ELSE "Exception")]
        /\ UNCHANGED <<objective, agentVars>>

\* Lines 79-84.
reset_eval_counters ==
    /\ objective' = [objective EXCEPT
                        !.num_eval = 0,
                        !.num_gradient_eval = 0,
                        !.num_hessian_eval = 0]
    /\ history' = [history EXCEPT
                      !.evals = 0, !.gradients = 0, !.hessians = 0,
                      !.last = Last("reset_eval_counters", << >>, "none")]
    /\ UNCHANGED agentVars

\* Lines 86-88.
reset_eval_logs ==
    /\ objective' = [objective EXCEPT !.eval_logs_dict = [x |-> << >>, fx |-> << >>]]
    /\ history' = [history EXCEPT
                      !.logged = 0,
                      !.last = Last("reset_eval_logs", << >>, "none")]
    /\ UNCHANGED agentVars

\* The caller sets the attribute do_eval_logs (False after line 53).
SetDoEvalLogs ==
    /\ \E b \in BOOLEAN : objective' = [objective EXCEPT !.do_eval_logs = b]
    /\ history' = [history EXCEPT !.last = Last("do_eval_logs", << >>, "none")]
    /\ UNCHANGED agentVars

\* ------------------------------------------------------------------------
\* Agent.__init__
\* ------------------------------------------------------------------------

InitWith(orders, rows, discounts, rates) ==
    /\ stateSet = <<"s0", "s1">>
    /\ actionSet \in orders
    /\ finalStateSet \in FinalStateSets
    /\ reward \in [States -> RewardValues]
    /\ transition \in [States \X Range(actionSet) -> rows]
    /\ discountFactor \in discounts
    /\ maximumErrorRate \in rates
    /\ valueUtility = EmptyDict
    /\ next_value_utility = EmptyDict
    /\ maximum_change_utility = Zero
    /\ iteration = 0
    /\ policy = EmptyDict
    /\ displayed = << >>
    /\ idx = 0
    /\ pc = "new"
    /\ raised = "none"
    /\ firstRun = << >>
    /\ lastCall = << >>
    /\ objective = NewObjective(1)
    /\ history = NewHistory

Init ==
    \/ InitWith(ActionOrders, TransitionRows, DiscountValues, ErrorRateValues)
    \/ InitWith(DataActionOrders, DataRows, DataDiscountValues, DataErrorRateValues)

\* Mutant of ZeroValueUtility: the value function starts at the rewards.
RewardValueUtility == [s \in Range(stateSet) |-> reward[s]]

\* Mutant of ZeroValueUtility: a value function that already exists is kept.
ZeroValueUtilityStale ==
    IF valueUtility = EmptyDict THEN [s \in Range(stateSet) |-> Zero] ELSE valueUtility

\* Line 35: the value function of a new agent, 0 for every state.
ZeroValueUtility == [s \in Range(stateSet) |-> Zero]

\* Mutant of Construct: maximum_change_utility starts at 0.
ConstructDeltaZero ==
    /\ pc = "new"
    /\ valueUtility' = ZeroValueUtility
    /\ maximum_change_utility' = Zero
    /\ iteration' = 0
    /\ pc' = "while"
    /\ UNCHANGED <<objVars, envVars, firstRun, lastCall, next_value_utility, policy, displayed, idx, raised>>

\* Lines 30-41: the attributes, the zero-filled value function, delta = inf.
Construct ==
    /\ pc = "new"
    /\ valueUtility' = ZeroValueUtility
    /\ maximum_change_utility' = PosInf
    /\ iteration' = 0
    /\ pc' = "while"
    /\ UNCHANGED <<objVars, envVars, firstRun, lastCall, next_value_utility, policy, displayed, idx, raised>>

\* Mutant of Threshold: (discountFactor - 1.) instead of (1. - discountFactor).
ThresholdNegated ==
    fDiv(fMul(maximumErrorRate, fSub(discountFactor, One)), discountFactor)

\* Mutant of Threshold: the division by discountFactor is lost.
ThresholdNoDivision == fMul(maximumErrorRate, fSub(One, discountFactor))

\* maximumErrorRate * (1. - discountFactor) / discountFactor, discountFactor # 0
Threshold ==
    fDiv(fMul(maximumErrorRate, fSub(One, discountFactor)), discountFactor)

\* The while condition of line 43.
LoopCondition == fGt(maximum_change_utility, Threshold)

\* Line 43 with discountFactor = 0: the division raises.
WhileRaise ==
    /\ pc = "while"
    /\ discountFactor = Zero
    /\ raised' = "ZeroDivisionError"
    /\ pc' = "raised"
    /\ UNCHANGED <<objVars, envVars, firstRun, lastCall, valueUtility, next_value_utility,
                   maximum_change_utility, iteration, policy, displayed, idx>>

\* Lines 43-46: the condition holds, a sweep starts.  The code has no limit
\* on the number of sweeps; the model follows a construction for MaxIter
\* sweeps and no further.
SweepBegin ==
    /\ pc = "while"
    /\ discountFactor # Zero
    /\ LoopCondition
    /\ iteration < MaxIter
    /\ next_value_utility' = EmptyDict
    /\ maximum_change_utility' = Zero
    /\ idx' = 1
    /\ pc' = "sweep"
    /\ UNCHANGED <<objVars, envVars, firstRun, lastCall, valueUtility, iteration, policy, displayed, raised>>

\* Mutant of BellmanValue: the discount factor is lost.
BellmanValueNoDiscount(state) ==
    fAdd(reward[state], actionMaximumExpectedUtility(state).utility)

\* Line 59: V_{i+1}(s) = R(s) + discount * action_meu
BellmanValue(state) ==
    fAdd(reward[state],
         fMul(discountFactor, actionMaximumExpectedUtility(state).utility))

\* Mutant of SweepFinalState: the change of a final state is counted in
\* maximum_change_utility too.
SweepFinalStateCounted ==
    /\ pc = "sweep"
    /\ idx <= Len(stateSet)
    /\ stateSet[idx] \in finalStateSet
    /\ LET state == stateSet[idx]
           delta == fAbs(fSub(valueUtility[state], reward[state]))
       IN  /\ next_value_utility' = SetItem(next_value_utility, state, reward[state])
           /\ maximum_change_utility' =
                  IF fGt(delta, maximum_change_utility)
                  THEN delta ELSE maximum_change_utility
    /\ idx' = idx + 1
    /\ UNCHANGED <<objVars, envVars, firstRun, lastCall, valueUtility, iteration,
                   policy, displayed, pc, raised>>

\* Mutant of SweepFinalState: a final state is updated like the other states.
SweepFinalStateDiscounted ==
    /\ pc = "sweep"
    /\ idx <= Len(stateSet)
    /\ stateSet[idx] \in finalStateSet
    /\ ~MissingKey(stateSet[idx])
    /\ next_value_utility' =
           SetItem(next_value_utility, stateSet[idx], BellmanValue(stateSet[idx]))
    /\ idx' = idx + 1
    /\ UNCHANGED <<objVars, envVars, firstRun, lastCall, valueUtility, maximum_change_utility, iteration,
                   policy, displayed, pc, raised>>

\* Lines 49-52: the loop body for a final state.
SweepFinalState ==
    /\ pc = "sweep"
    /\ idx <= Len(stateSet)
    /\ stateSet[idx] \in finalStateSet
    /\ next_value_utility' =
           SetItem(next_value_utility, stateSet[idx], reward[stateSet[idx]])
    /\ idx' = idx + 1
    /\ UNCHANGED <<objVars, envVars, firstRun, lastCall, valueUtility, maximum_change_utility, iteration,
                   policy, displayed, pc, raised>>

\* Mutant of SweepBellman: the action computed at line 56 is stored in the
\* policy during the sweep.
SweepBellmanRecordsAction ==
    /\ pc = "sweep"
    /\ idx <= Len(stateSet)
    /\ stateSet[idx] \notin finalStateSet
    /\ ~MissingKey(stateSet[idx])
    /\ LET state == stateSet[idx]
           v == BellmanValue(state)
           delta == fAbs(fSub(valueUtility[state], v))
       IN  /\ next_value_utility' = SetItem(next_value_utility, state, v)
           /\ policy' = SetItem(policy, state, actionMaximumExpectedUtility(state).action)
           /\ maximum_change_utility' =
                  IF fGt(delta, maximum_change_utility)
                  THEN delta ELSE maximum_change_utility
    /\ idx' = idx + 1
    /\ UNCHANGED <<objVars, envVars, firstRun, lastCall, valueUtility, iteration, displayed, pc, raised>>

\* Mutant of SweepBellman: the new value is also written into valueUtility
\* at once (in-place update).
SweepBellmanInPlace ==
    /\ pc = "sweep"
    /\ idx <= Len(stateSet)
    /\ stateSet[idx] \notin finalStateSet
    /\ ~MissingKey(stateSet[idx])
    /\ LET state == stateSet[idx]
           v == BellmanValue(state)
           delta == fAbs(fSub(valueUtility[state], v))
       IN  /\ next_value_utility' = SetItem(next_value_utility, state, v)
           /\ valueUtility' = [valueUtility EXCEPT ![state] = v]
           /\ maximum_change_utility' =
                  IF fGt(delta, maximum_change_utility)
                  THEN delta ELSE maximum_change_utility
    /\ idx' = idx + 1
    /\ UNCHANGED <<objVars, envVars, firstRun, lastCall, iteration, policy, displayed, pc, raised>>

\* Lines 53-64: the loop body for a state that is not final.
SweepBellman ==
    /\ pc = "sweep"
    /\ idx <= Len(stateSet)
    /\ stateSet[idx] \notin finalStateSet
    /\ ~MissingKey(stateSet[idx])
    /\ LET state == stateSet[idx]
           v == BellmanValue(state)
           delta == fAbs(fSub(valueUtility[state], v))
       IN  /\ next_value_utility' = SetItem(next_value_utility, state, v)
           /\ maximum_change_utility' =
                  IF fGt(delta, maximum_change_utility)
                  THEN delta ELSE maximum_change_utility
    /\ idx' = idx + 1
    /\ UNCHANGED <<objVars, envVars, firstRun, lastCall, valueUtility, iteration, policy, displayed, pc, raised>>

\* Lines 56, 93: the loop body for a state that is not final, when a row of
\* the state lacks an entry: KeyError leaves the constructor.
SweepKeyError ==
    /\ pc = "sweep"
    /\ idx <= Len(stateSet)
    /\ stateSet[idx] \notin finalStateSet
    /\ MissingKey(stateSet[idx])
    /\ raised' = "KeyError"
    /\ pc' = "raised"
    /\ UNCHANGED <<objVars, envVars, firstRun, lastCall, valueUtility, next_value_utility,
                   maximum_change_utility, iteration, policy, displayed, idx>>

\* Mutant of SweepEnd: the observer is called before the value function is
\* replaced.
SweepEndDisplayFirst ==
    /\ pc = "sweep"
    /\ idx > Len(stateSet)
    /\ valueUtility' = next_value_utility
    /\ displayed' = Append(displayed, [valueFunction |-> valueUtility,
                                       iteration |-> iteration])
    /\ iteration' = iteration + 1
    /\ pc' = "while"
    /\ UNCHANGED <<objVars, envVars, firstRun, lastCall, next_value_utility, maximum_change_utility,
                   policy, idx, raised>>

\* Lines 66-72: V := V', the display call, iteration += 1.
SweepEnd ==
    /\ pc = "sweep"
    /\ idx > Len(stateSet)
    /\ valueUtility' = next_value_utility
    /\ displayed' = Append(displayed, [valueFunction |-> next_value_utility,
                                       iteration |-> iteration])
    /\ iteration' = iteration + 1
    /\ pc' = "while"
    /\ UNCHANGED <<objVars, envVars, firstRun, lastCall, next_value_utility, maximum_change_utility,
                   policy, idx, raised>>

\* Lines 43, 75: the condition fails, the policy dict is created.
LoopExit ==
    /\ pc = "while"
    /\ discountFactor # Zero
    /\ ~LoopCondition
    /\ policy' = EmptyDict
    /\ idx' = 1
    /\ pc' = "policy"
    /\ UNCHANGED <<objVars, envVars, firstRun, lastCall, valueUtility, next_value_utility,
                   maximum_change_utility, iteration, displayed, raised>>

\* Mutant of BuildPolicy: a final state gets no entry.
BuildPolicyNonFinalOnly ==
    /\ pc = "policy"
    /\ idx <= Len(stateSet)
    /\ ~MissingKey(stateSet[idx])
    /\ policy' = IF stateSet[idx] \in finalStateSet THEN policy
                 ELSE SetItem(policy, stateSet[idx],
                              actionMaximumExpectedUtility(stateSet[idx]).action)
    /\ idx' = idx + 1
    /\ UNCHANGED <<objVars, envVars, firstRun, lastCall, valueUtility, next_value_utility,
                   maximum_change_utility, iteration, displayed, pc, raised>>

\* Mutant of BuildPolicy: a final state gets no action (None).
BuildPolicySkipFinal ==
    /\ pc = "policy"
    /\ idx <= Len(stateSet)
    /\ ~MissingKey(stateSet[idx])
    /\ policy' = SetItem(policy, stateSet[idx],
                         IF stateSet[idx] \in finalStateSet THEN "None"
                         ELSE actionMaximumExpectedUtility(stateSet[idx]).action)
    /\ idx' = idx + 1
    /\ UNCHANGED <<objVars, envVars, firstRun, lastCall, valueUtility, next_value_utility,
                   maximum_change_utility, iteration, displayed, pc, raised>>

\* Lines 76-78: one pass of the policy loop.
BuildPolicy ==
    /\ pc = "policy"
    /\ idx <= Len(stateSet)
    /\ ~MissingKey(stateSet[idx])
    /\ policy' = SetItem(policy, stateSet[idx],
                         actionMaximumExpectedUtility(stateSet[idx]).action)
    /\ idx' = idx + 1
    /\ UNCHANGED <<objVars, envVars, firstRun, lastCall, valueUtility, next_value_utility,
                   maximum_change_utility, iteration, displayed, pc, raised>>

\* Lines 77, 93: a pass of the policy loop for a state with a row that lacks
\* an entry (final states are read here for the first time).
BuildPolicyKeyError ==
    /\ pc = "policy"
    /\ idx <= Len(stateSet)
    /\ MissingKey(stateSet[idx])
    /\ raised' = "KeyError"
    /\ pc' = "raised"
    /\ UNCHANGED <<objVars, envVars, firstRun, lastCall, valueUtility, next_value_utility,
                   maximum_change_utility, iteration, policy, displayed, idx>>

\* The policy loop is over: __init__ returns.
Return ==
    /\ pc = "policy"
    /\ idx > Len(stateSet)
    /\ pc' = "done"
    /\ UNCHANGED <<objVars, envVars, firstRun, lastCall, valueUtility, next_value_utility,
                   maximum_change_utility, iteration, policy, displayed, idx, raised>>

\* What a finished construction leaves behind.
Results == [valueUtility |-> valueUtility, policy |-> policy, iteration |-> iteration]

\* A second Agent(environment, discount_factor, maximum_error_rate) on the
\* same arguments, after the first has returned: lines 30-41 of the new
\* object; the first object's results are kept for comparison.
ConstructAgain ==
    /\ pc = "done"
    /\ firstRun = << >>
    /\ firstRun' = <<Results>>
    /\ valueUtility' = ZeroValueUtility
    /\ maximum_change_utility' = PosInf
    /\ iteration' = 0
    /\ policy' = EmptyDict
    /\ pc' = "while"
    /\ UNCHANGED <<objVars, envVars, lastCall, next_value_utility, displayed, idx, raised>>

\* ------------------------------------------------------------------------
\* Agent.getAction
\* ------------------------------------------------------------------------

\* What a call leaves behind: its argument, the action returned ("None"
\* for Python's None, "" when the call raised) and the exception.
CallResult(state, action, error) ==
    <<[state |-> state, action |-> action, error |-> error]>>

\* Mutant of GetAction: the call solves again before it answers.
GetActionResolve ==
    /\ pc = "done"
    /\ \E state \in Range(stateSet) :
          lastCall' = CallResult(state, actionMaximumExpectedUtility(state).action, "none")
    /\ maximum_change_utility' = PosInf
    /\ pc' = "while"
    /\ UNCHANGED <<objVars, envVars, firstRun, valueUtility, next_value_utility,
                   iteration, policy, displayed, idx, raised>>

\* Mutant of GetAction: the utility found for the state is stored in the
\* value function.
GetActionWritesBack ==
    /\ pc = "done"
    /\ \E state \in Range(stateSet) :
          /\ lastCall' = CallResult(state, actionMaximumExpectedUtility(state).action, "none")
          /\ valueUtility' = SetItem(valueUtility, state,
                                     actionMaximumExpectedUtility(state).utility)
    /\ UNCHANGED <<objVars, envVars, firstRun, next_value_utility, maximum_change_utility,
                   iteration, policy, displayed, idx, pc, raised>>

\* Lines 105-106 for a state of stateSet, on a constructed agent (every row
\* of every state has been read by the policy loop, so no entry is missing).
GetAction ==
    /\ pc = "done"
    /\ \E state \in Range(stateSet) :
          lastCall' = CallResult(state, actionMaximumExpectedUtility(state).action, "none")
    /\ UNCHANGED <<objVars, envVars, firstRun, valueUtility, next_value_utility,
                   maximum_change_utility, iteration, policy, displayed, idx, pc, raised>>

\* Lines 105-106 for a state that is not in stateSet.  getAction does not
\* look at stateSet or at the policy: with no action the loop of line 90 is
\* empty and None is returned; otherwise the state goes to
\* environment.transition, whose answer for a state it does not know is
\* the environment's: it raises (KeyError for a dict-backed environment) or
\* returns rows, from which one of the actions is chosen.
GetActionUnknown ==
    /\ pc = "done"
    /\ \/ /\ actionSet = << >>
          /\ lastCall' = CallResult(UnknownState, "None", "none")
       \/ /\ actionSet # << >>
          /\ lastCall' = CallResult(UnknownState, "", "KeyError")
       \/ /\ actionSet # << >>
          /\ \E action \in Range(actionSet) :
                lastCall' = CallResult(UnknownState, action, "none")
    /\ UNCHANGED <<objVars, envVars, firstRun, valueUtility, next_value_utility,
                   maximum_change_utility, iteration, policy, displayed, idx, pc, raised>>

Next ==
    \/ Construct
    \/ WhileRaise
    \/ SweepBegin
    \/ SweepFinalState
    \/ SweepBellman
    \/ SweepKeyError
    \/ SweepEnd
    \/ LoopExit
    \/ BuildPolicy
    \/ BuildPolicyKeyError
    \/ Return
    \/ GetAction
    \/ GetActionUnknown

Spec == Init /\ [][Next]_vars

\* Two constructions in a row on the same inputs, with no call in between.
NextTwo ==
    \/ Construct
    \/ WhileRaise
    \/ SweepBegin
    \/ SweepFinalState
    \/ SweepBellman
    \/ SweepKeyError
    \/ SweepEnd
    \/ LoopExit
    \/ BuildPolicy
    \/ BuildPolicyKeyError
    \/ Return
    \/ ConstructAgain

SpecTwo == Init /\ [][NextTwo]_vars

\* Inputs of the termination check: a non-empty action set, rows that sum
\* to 1, and pairs (discount, error rate) with 0 < discount < 1 and
\* 0 < error rate, chosen so that the sweeps a run needs fit under MaxIter.
LiveActionOrders == {<<"a">>, <<"a", "b">>}
LiveParameters == {<<Fin(1, 10), Fin(1, 100)>>, <<Half, Fin(2, 1)>>}

\* Before the caller has built the environment: there are no actions, no
\* rows and no agent yet.
InitLive ==
    /\ stateSet = <<"s0", "s1">>
    /\ actionSet = << >>
    /\ finalStateSet = {}
    /\ reward = [s \in States |-> Zero]
    /\ transition = << >>
    /\ \E p \in LiveParameters :
          /\ discountFactor = p[1]
          /\ maximumErrorRate = p[2]
    /\ valueUtility = EmptyDict
    /\ next_value_utility = EmptyDict
    /\ maximum_change_utility = Zero
    /\ iteration = 0
    /\ policy = EmptyDict
    /\ displayed = << >>
    /\ idx = 0
    /\ pc = "env"
    /\ raised = "none"
    /\ firstRun = << >>
    /\ lastCall = << >>
    /\ objective = NewObjective(1)
    /\ history = NewHistory

\* The caller builds the environment that it passes at line 28.
NewEnvironment ==
    /\ pc = "env"
    /\ actionSet' \in LiveActionOrders
    /\ finalStateSet' \in FinalStateSets
    /\ reward' \in [States -> RewardValues]
    /\ transition' \in [States \X Range(actionSet') -> TransitionRows]
    /\ pc' = "new"
    /\ UNCHANGED <<objVars, stateSet, discountFactor, maximumErrorRate, valueUtility,
                   next_value_utility, maximum_change_utility, iteration,
                   policy, displayed, idx, raised, firstRun, lastCall>>

\* The steps of the constructor that these inputs can take.
NextLive ==
    \/ NewEnvironment
    \/ Construct
    \/ SweepBegin
    \/ SweepFinalState
    \/ SweepBellman
    \/ SweepEnd
    \/ LoopExit
    \/ BuildPolicy
    \/ Return

\* The constructor is sequential code: a step that can run does run.
SpecLive == InitLive /\ [][NextLive]_vars /\ WF_vars(NextLive)


\* ------------------------------------------------------------------------
\* Reference definitions used by the properties: the Bellman equations
\* written over sets, independently of the loops of the constructor.
\* ------------------------------------------------------------------------

NonFinalStates == Range(stateSet) \ finalStateSet

\* sum over s' in S of T(state, action, s') * V(s')
RECURSIVE RefSum(_, _, _, _)
RefSum(V, state, action, S) ==
    IF S = {} THEN Zero
    ELSE LET x == CHOOSE y \in S : TRUE
         IN  fAdd(fMul(transition[<<state, action>>][x], V[x]),
                  RefSum(V, state, action, S \ {x}))

RefExpectedUtility(V, state, action) == RefSum(V, state, action, Range(stateSet))

\* max over the actions of the expected utility; -inf when there is no action
RefMaxUtility(V, state) ==
    IF actionSet = << >> THEN NegInf
    ELSE LET U == {RefExpectedUtility(V, state, a) : a \in Range(actionSet)}
         IN  CHOOSE u \in U : \A w \in U : ~fGt(w, u)

\* R(s) + discount * max_a sum_s' T(s, a, s') V(s')
RefBellman(V, state) == fAdd(reward[state], fMul(discountFactor, RefMaxUtility(V, state)))

\* maximum_error_rate * (1 - discount) / discount
StopBound ==
    fDiv(fMul(maximumErrorRate, fSub(One, discountFactor)), discountFactor)

\* The parameters the data model allows: 0 < discount, 0 < error rate.
ValidParameters == fGt(discountFactor, Zero) /\ fGt(maximumErrorRate, Zero)

\* The sweep loop has stopped normally.
LoopStopped == pc \in {"policy", "done"}

\* ------------------------------------------------------------------------
\* C1
\* ------------------------------------------------------------------------

\* Scenario A: s1 final with R(s1) = 10, R(s0) = 0, one action moving s0 to
\* s1 with probability 1, discount 0.9, maximum error rate 0.01.
ScenarioA ==
    /\ finalStateSet = {"s1"}
    /\ reward = [s \in States |-> IF s = "s1" THEN Fin(10, 1) ELSE Zero]
    /\ actionSet = <<"a">>
    /\ transition[<<"s0", "a">>] = [s \in States |-> IF s = "s1" THEN One ELSE Zero]
    /\ discountFactor = Fin(9, 10)
    /\ maximumErrorRate = Fin(1, 100)

\* C1: in scenario A, when the construction finishes, V(s1) = 10 and
\* V(s0) = 9.0.
C1_ScenarioAValues ==
    (ScenarioA /\ pc = "done") =>
        /\ valueUtility["s1"] = Fin(10, 1)
        /\ valueUtility["s0"] = Fin(9, 1)

\* ------------------------------------------------------------------------
\* C2
\* ------------------------------------------------------------------------

\* C2: for discount < 1 (and valid parameters), once the sweep loop has
\* stopped, one more sweep applied to the final value function changes the
\* value of every non-final state by at most
\* maximum_error_rate * (1 - discount) / discount.
C2_BoundProperty ==
    (LoopStopped /\ ValidParameters /\ fGt(One, discountFactor)) =>
        \A s \in NonFinalStates :
            ~fGt(fAbs(fSub(RefBellman(valueUtility, s), valueUtility[s])), StopBound)

\* ------------------------------------------------------------------------
\* C3
\* ------------------------------------------------------------------------

\* C3: after every sweep (as soon as valueUtility has been assigned inside
\* the loop), every final state s has valueUtility[s] = reward(s), whatever
\* the discount, the error rate and the transitions are.
C3_TerminalPinning ==
    (iteration >= 1) => \A s \in finalStateSet : valueUtility[s] = reward[s]

\* Two sweeps are over and a final state holds a reward that is not its
\* initial value 0.
C3_Witness ==
    /\ iteration >= 2
    /\ pc = "while"
    /\ \E s \in finalStateSet : reward[s] # Zero /\ valueUtility[s] = reward[s]
    /\ NonFinalStates # {}

\* ------------------------------------------------------------------------
\* C4
\* ------------------------------------------------------------------------

\* C4: after construction, for every non-final state s, no action of
\* actionSet has an expected utility sum_s' T(s, a, s') V(s') strictly
\* greater than that of policy[s], V being the final value function.
C4_PolicyGreedy ==
    (pc = "done") =>
        \A s \in NonFinalStates : \A a \in Range(actionSet) :
            /\ policy[s] \in Range(actionSet)
            /\ ~fGt(RefExpectedUtility(valueUtility, s, a),
                    RefExpectedUtility(valueUtility, s, policy[s]))

\* A finished construction whose policy picks the second action of
\* actionSet for a non-final state because it is strictly better there.
C4_Witness ==
    /\ pc = "done"
    /\ actionSet = <<"a", "b">>
    /\ \E s \in NonFinalStates :
          /\ policy[s] = "b"
          /\ fGt(RefExpectedUtility(valueUtility, s, "b"),
                 RefExpectedUtility(valueUtility, s, "a"))

\* ------------------------------------------------------------------------
\* C5
\* ------------------------------------------------------------------------

C6_JacobiUpdate ==
    [][ /\ (pc = "sweep" /\ pc' = "sweep") =>
              /\ valueUtility' = valueUtility
              /\ \A s \in DOMAIN next_value_utility :
                    /\ s \in DOMAIN next_value_utility'
                    /\ next_value_utility'[s] = next_value_utility[s]
              /\ \A s \in (DOMAIN next_value_utility') \ (DOMAIN next_value_utility) :
                    next_value_utility'[s] =
                        IF s \in finalStateSet THEN reward[s]
                        ELSE RefBellman(valueUtility, s)
        /\ (pc = "sweep" /\ valueUtility' # valueUtility) =>
              /\ idx > Len(stateSet)
              /\ DOMAIN next_value_utility = Range(stateSet)
              /\ valueUtility' = next_value_utility
      ]_vars

\* The end of a sweep where an in-place update would have given s1 another
\* value: s0 changed in this sweep and the update of s1 reads s0.
C6_Witness ==
    /\ pc = "sweep"
    /\ idx > Len(stateSet)
    /\ iteration >= 1
    /\ finalStateSet = {}
    /\ next_value_utility["s0"] # valueUtility["s0"]
    /\ next_value_utility["s1"] = RefBellman(valueUtility, "s1")
    /\ next_value_utility["s1"] #
           RefBellman([valueUtility EXCEPT !["s0"] = next_value_utility["s0"]], "s1")

\* ------------------------------------------------------------------------
\* C7
\* ------------------------------------------------------------------------

\* C7: after a sweep, the constructor goes on to another sweep exactly when
\* the Delta of the sweep just finished is strictly greater than
\* maximum_error_rate * (1 - discount) / discount, and otherwise leaves the
\* loop; so the loop is left with Delta at most that bound.
C7_StoppingRule ==
    [][ (pc = "while" /\ iteration >= 1 /\ pc' # pc) =>
            /\ pc' \in {"sweep", "policy"}
            /\ (pc' = "sweep") <=> fGt(maximum_change_utility, StopBound)
      ]_vars

\* The loop has been left after at least two sweeps, the last with a Delta
\* that is not 0.
C7_Witness ==
    /\ pc = "policy"
    /\ iteration >= 2
    /\ maximum_change_utility # Zero
    /\ ~fGt(maximum_change_utility, StopBound)

\* ------------------------------------------------------------------------
\* C8
\* ------------------------------------------------------------------------

\* C8: with a discount factor <= 0 or = 1 (the other inputs being valid)
\* the construction ends in InvalidDiscountFactor before any sweep: no value
\* function update, no observer call, no policy.
C8_InvalidDiscountFactor ==
    ((~fGt(discountFactor, Zero) \/ discountFactor = One)
         /\ fGt(maximumErrorRate, Zero) /\ actionSet # << >>) =>
        /\ pc \in {"new", "while", "raised"}
        /\ raised \in {"none", "InvalidDiscountFactor"}
        /\ iteration = 0
        /\ displayed = << >>
        /\ policy = EmptyDict

\* ------------------------------------------------------------------------
\* C9
\* ------------------------------------------------------------------------

\* C9: with maximum_error_rate <= 0 (the other inputs being valid) the
\* construction ends in InvalidErrorRate and runs no sweep.
C9_InvalidErrorRate ==
    (~fGt(maximumErrorRate, Zero) /\ actionSet # << >>
         /\ fGt(discountFactor, Zero) /\ fGt(One, discountFactor)) =>
        /\ pc \in {"new", "while", "raised"}
        /\ raised \in {"none", "InvalidErrorRate"}
        /\ iteration = 0

\* ------------------------------------------------------------------------
\* C10
\* ------------------------------------------------------------------------

\* C10: with an empty action set and a state that is not final, the first
\* sweep fails with NoFeasibleActionError; no value and no policy action
\* computed from the empty action set is ever stored.
C10_NoFeasibleAction ==
    (actionSet = << >> /\ NonFinalStates # {} /\ ValidParameters
         /\ fGt(One, discountFactor)) =>
        /\ raised \in {"none", "NoFeasibleActionError"}
        /\ iteration = 0
        /\ \A s \in NonFinalStates :
              /\ s \notin DOMAIN next_value_utility
              /\ s \notin DOMAIN policy
        /\ pc # "done"

\* ------------------------------------------------------------------------
\* C11
\* ------------------------------------------------------------------------

\* Sum of the probabilities of a row.
RECURSIVE RowSumOver(_, _)
RowSumOver(row, S) ==
    IF S = {} THEN Zero
    ELSE LET x == CHOOSE y \in S : TRUE
         IN  fAdd(row[x], RowSumOver(row, S \ {x}))

RowSum(row) == RowSumOver(row, DOMAIN row)

\* Every row has an entry for every state.
RowsComplete ==
    \A s \in Range(stateSet) : \A a \in Range(actionSet) :
        DOMAIN transition[<<s, a>>] = Range(stateSet)

\* Scenario C: the probabilities of some (state, action) sum to 0.5.
ScenarioC ==
    /\ RowsComplete
    /\ \E s \in Range(stateSet) : \E a \in Range(actionSet) :
          RowSum(transition[<<s, a>>]) = Half

\* C11: in scenario C the solve ends in MalformedTransitionError and
\* produces no value function and no policy.
C11_MalformedTransition ==
    ScenarioC =>
        /\ raised \in {"none", "MalformedTransitionError"}
        /\ pc \notin {"policy", "done"}

\* ------------------------------------------------------------------------
\* C12
\* ------------------------------------------------------------------------

\* C12: a getAction call with a state that is not in stateSet fails with
\* UnknownStateError.
C12_UnknownState ==
    (/\ ValidParameters
     /\ actionSet # << >>
     /\ lastCall # << >>
     /\ lastCall[1].state \notin Range(stateSet)) =>
        lastCall[1].error = "UnknownStateError"

\* ------------------------------------------------------------------------
\* C13
\* ------------------------------------------------------------------------

\* C13: after construction, whatever calls came before, a getAction call
\* with a state s of stateSet returns the action stored in policy[s].
C13_GetActionIsPolicy ==
    (lastCall # << >> /\ lastCall[1].state \in Range(stateSet)) =>
        /\ lastCall[1].error = "none"
        /\ lastCall[1].action = policy[lastCall[1].state]

\* A call that answered with the second action of actionSet.
C13_Witness ==
    /\ pc = "done"
    /\ lastCall # << >>
    /\ lastCall[1].state \in Range(stateSet)
    /\ lastCall[1].action = "b"
    /\ finalStateSet # {}
    /\ iteration >= 2

\* ------------------------------------------------------------------------
\* C14
\* ------------------------------------------------------------------------

\* 0 for INITIALIZING, 1 for ITERATING, 2 for CONVERGED; 3 when an
\* exception has ended the constructor.
PhaseOf(p) ==
    CASE p = "new" -> 0
      [] p \in {"while", "sweep"} -> 1
      [] p \in {"policy", "done"} -> 2
      [] OTHER -> 3

\* C14: the phases follow INITIALIZING -> ITERATING -> CONVERGED only (an
\* exception apart): the zero-fill happens on leaving INITIALIZING and
\* nowhere else, the iteration count and the value function change only in
\* ITERATING, and from CONVERGED no step goes back to ITERATING, changes the
\* iteration count or the value function.
C14_PhaseOrder ==
    [][ /\ PhaseOf(pc') # PhaseOf(pc) =>
              (PhaseOf(pc') = PhaseOf(pc) + 1 \/ PhaseOf(pc') = 3)
        /\ PhaseOf(pc) = 3 => PhaseOf(pc') = 3
        /\ (PhaseOf(pc) = 0 /\ PhaseOf(pc') = 1) =>
              valueUtility' = [s \in Range(stateSet) |-> Zero]
        /\ (iteration' # iteration \/ (valueUtility' # valueUtility /\ PhaseOf(pc) # 0)) =>
              (PhaseOf(pc) = 1 /\ PhaseOf(pc') = 1)
        /\ PhaseOf(pc) = 2 =>
              (iteration' = iteration /\ valueUtility' = valueUtility)
      ]_vars

\* A getAction call has been answered after a construction of two sweeps
\* or more.
C14_Witness ==
    /\ pc = "done"
    /\ lastCall # << >>
    /\ iteration >= 2
    /\ Len(displayed) = iteration

\* ------------------------------------------------------------------------
\* C15
\* ------------------------------------------------------------------------

\* C15: there is no policy entry before the sweep loop has stopped; an
\* entry is written only by the policy loop, for a state that has none
\* yet, and no step changes or removes an entry.
C15_PolicyWrittenOnce ==
    [][ /\ pc \in {"new", "while", "sweep"} => policy = EmptyDict
        /\ policy' # policy =>
              /\ pc = "policy"
              /\ \E s \in Range(stateSet) \ DOMAIN policy :
                    DOMAIN policy' = (DOMAIN policy) \cup {s}
              /\ \A s \in DOMAIN policy : policy'[s] = policy[s]
      ]_vars

\* The policy is complete and calls for a known and for an unknown state
\* have been made after it.
C15_Witness ==
    /\ pc = "done"
    /\ DOMAIN policy = Range(stateSet)
    /\ lastCall # << >>
    /\ lastCall[1].state = UnknownState
    /\ iteration >= 2

\* ------------------------------------------------------------------------
\* C16
\* ------------------------------------------------------------------------

\* C16: with a non-empty action set, rows that sum to 1, finite rewards,
\* 0 < discount < 1 and 0 < error rate, the constructor leaves the sweep
\* loop, builds the policy and returns.
C16_Termination == <>(pc = "done")

\* A run that needed three sweeps or more has returned.
C16_Witness ==
    /\ pc = "done"
    /\ iteration >= 3
    /\ DOMAIN policy = Range(stateSet)
    /\ fGt(One, discountFactor)
    /\ ValidParameters

\* ------------------------------------------------------------------------
\* C17
\* ------------------------------------------------------------------------

\* C17: in every sweep the new value of a non-final state s is
\* reward(s) + discount * max over the actions of
\* sum over s' of transition(s, a)[s'] * (previous value of s').
C17_BellmanUpdate ==
    pc = "sweep" =>
        \A s \in (DOMAIN next_value_utility) \ finalStateSet :
            next_value_utility[s] =
                fAdd(reward[s], fMul(discountFactor, RefMaxUtility(valueUtility, s)))

\* In a second or later sweep, with two actions, a non-final state has got
\* a new value that differs from its reward and from its previous value.
C17_Witness ==
    /\ pc = "sweep"
    /\ iteration >= 1
    /\ Len(actionSet) = 2
    /\ \E s \in (DOMAIN next_value_utility) \ finalStateSet :
          /\ next_value_utility[s] # reward[s]
          /\ next_value_utility[s] # valueUtility[s]

\* ------------------------------------------------------------------------
\* C18
\* ------------------------------------------------------------------------

\* |V_prev(s) - V_new(s)| for a state the sweep has passed.
Change(s) == fAbs(fSub(valueUtility[s], next_value_utility[s]))

C19_FirstActionWinsTie ==
    actionSet # << >> =>
        \A s \in DOMAIN policy :
            \E i \in 1..Len(actionSet) :
                /\ policy[s] = actionSet[i]
                /\ \A j \in 1..Len(actionSet) :
                      LET Qi == RefExpectedUtility(valueUtility, s, actionSet[i])
                          Qj == RefExpectedUtility(valueUtility, s, actionSet[j])
                      IN  /\ j < i => fGt(Qi, Qj)
                          /\ j > i => ~fGt(Qj, Qi)

\* Two actions tie in one state, whose policy entry is the first of them;
\* the values of the states differ and the second action wins in another
\* state.
C19_Witness ==
    /\ pc = "done"
    /\ actionSet = <<"a", "b">>
    /\ valueUtility["s0"] # valueUtility["s1"]
    /\ \E s \in Range(stateSet) :
          /\ RefExpectedUtility(valueUtility, s, "a") = RefExpectedUtility(valueUtility, s, "b")
          /\ policy[s] = "a"
    /\ \E s \in Range(stateSet) : policy[s] = "b"

\* ------------------------------------------------------------------------
\* C20
\* ------------------------------------------------------------------------

\* A row of the transition function has no entry for some state.
SomeMissingKey == \E s \in Range(stateSet) : MissingKey(s)

\* C20: when a row has no entry for a state, the entry counts as
\* probability 0 and the construction raises no error.
C20_MissingEntryIsZero ==
    (SomeMissingKey /\ ValidParameters) => raised = "none"

\* ------------------------------------------------------------------------
\* The sweep with its loop bodies run in any order (one worker per state).
\* ------------------------------------------------------------------------

\* The states that no worker has handled yet in the running sweep.
Pending == Range(stateSet) \ DOMAIN next_value_utility

\* Lines 50-52 for any pending final state.
WorkerFinalState ==
    /\ pc = "sweep"
    /\ \E state \in Pending \cap finalStateSet :
          next_value_utility' = SetItem(next_value_utility, state, reward[state])
    /\ idx' = idx + 1
    /\ UNCHANGED <<objVars, envVars, firstRun, lastCall, valueUtility, maximum_change_utility,
                   iteration, policy, displayed, pc, raised>>

\* Mutant of WorkerBellman: a worker stores its own change in
\* maximum_change_utility, whatever is there.
WorkerBellmanLastDelta ==
    /\ pc = "sweep"
    /\ \E state \in Pending \ finalStateSet :
          LET v == BellmanValue(state)
              delta == fAbs(fSub(valueUtility[state], v))
          IN  /\ next_value_utility' = SetItem(next_value_utility, state, v)
              /\ maximum_change_utility' = delta
    /\ idx' = idx + 1
    /\ UNCHANGED <<objVars, envVars, firstRun, lastCall, valueUtility, iteration, policy,
                   displayed, pc, raised>>

\* Lines 53-64 for any pending state that is not final.
WorkerBellman ==
    /\ pc = "sweep"
    /\ \E state \in Pending \ finalStateSet :
          LET v == BellmanValue(state)
              delta == fAbs(fSub(valueUtility[state], v))
          IN  /\ next_value_utility' = SetItem(next_value_utility, state, v)
              /\ maximum_change_utility' =
                     IF fGt(delta, maximum_change_utility)
                     THEN delta ELSE maximum_change_utility
    /\ idx' = idx + 1
    /\ UNCHANGED <<objVars, envVars, firstRun, lastCall, valueUtility, iteration, policy,
                   displayed, pc, raised>>

\* Environments with complete rows and parameters that the data model
\* allows.
InitPar == InitWith(ActionOrders, TransitionRows, DataDiscountValues, DataErrorRateValues)

\* The constructor with the workers in place of the for loop of line 49;
\* SweepEnd is the join.
NextPar ==
    \/ Construct
    \/ SweepBegin
    \/ WorkerFinalState
    \/ WorkerBellman
    \/ SweepEnd
    \/ LoopExit
    \/ BuildPolicy
    \/ Return

SpecPar == InitPar /\ [][NextPar]_vars

\* ------------------------------------------------------------------------
\* An objective function on its own: no agent is built.
\* ------------------------------------------------------------------------

InitObjective ==
    /\ stateSet = <<"s0", "s1">>
    /\ actionSet = << >>
    /\ finalStateSet = {}
    /\ reward = [s \in States |-> Zero]
    /\ transition = << >>
    /\ discountFactor = One
    /\ maximumErrorRate = One
    /\ valueUtility = EmptyDict
    /\ next_value_utility = EmptyDict
    /\ maximum_change_utility = Zero
    /\ iteration = 0
    /\ policy = EmptyDict
    /\ displayed = << >>
    /\ idx = 0
    /\ pc = "env"
    /\ raised = "none"
    /\ firstRun = << >>
    /\ lastCall = << >>
    /\ objective \in {NewObjective(ndim) : ndim \in Dimensions}
    /\ history = NewHistory

NextObjective ==
    \/ Call
    \/ CallRejected
    \/ Gradient
    \/ GradientRejected
    \/ Hessian
    \/ HessianRejected
    \/ reset_eval_counters
    \/ reset_eval_logs
    \/ SetDoEvalLogs

SpecObjective == InitObjective /\ [][NextObjective]_vars

\* ------------------------------------------------------------------------
\* C24
\* ------------------------------------------------------------------------

\* The for loop of lines 49-64 over the first i states of stateSet, in
\* order: the new values and the change.
RECURSIVE SeqSweep(_)
SeqSweep(i) ==
    IF i = 0 THEN [values |-> EmptyDict, delta |-> Zero]
    ELSE LET prev == SeqSweep(i - 1)
             state == stateSet[i]
             v == BellmanValue(state)
             d == fAbs(fSub(valueUtility[state], v))
         IN  IF state \in finalStateSet
             THEN [values |-> SetItem(prev.values, state, reward[state]),
                   delta |-> prev.delta]
             ELSE [values |-> SetItem(prev.values, state, v),
                   delta |-> IF fGt(d, prev.delta) THEN d ELSE prev.delta]

\* C24: whatever the order in which the workers handle the states, a
\* worker writes one slot that no worker has written, and at the join the
\* new value function and maximum_change_utility are those of the
\* sequential loop over stateSet.
C24_OrderIndependence ==
    [][ /\ (pc = "sweep" /\ next_value_utility' # next_value_utility) =>
              /\ \E s \in Pending : DOMAIN next_value_utility' = (DOMAIN next_value_utility) \cup {s}
              /\ \A s \in DOMAIN next_value_utility :
                    next_value_utility'[s] = next_value_utility[s]
              /\ valueUtility' = valueUtility
        /\ (pc = "sweep" /\ Pending = {}) =>
              /\ next_value_utility = SeqSweep(Len(stateSet)).values
              /\ maximum_change_utility = SeqSweep(Len(stateSet)).delta
      ]_vars

\* In a second or later sweep the last state of stateSet has been handled
\* before the first one, with a change above 0; no state is final.
C24_Witness ==
    /\ pc = "sweep"
    /\ iteration >= 1
    /\ finalStateSet = {}
    /\ DOMAIN next_value_utility = {"s1"}
    /\ fGt(maximum_change_utility, Zero)

\* ------------------------------------------------------------------------
\* C21
\* ------------------------------------------------------------------------

\* C21: displayValueFunction is called once per sweep, at the end of the
\* sweep, with the value function that has just replaced the previous one
\* and with the iteration indices 0, 1, 2, ... in order; the call changes
\* nothing that the constructor reads (the new value function is
\* next_value_utility, whatever was displayed).
C21_ObserverOncePerSweep ==
    [][ /\ Len(displayed) = iteration
        /\ \A i \in 1..Len(displayed) : displayed[i].iteration = i - 1
        /\ (displayed' # displayed \/ iteration' # iteration) =>
              /\ pc = "sweep"
              /\ pc' = "while"
              /\ iteration' = iteration + 1
              /\ valueUtility' = next_value_utility
              /\ displayed' = Append(displayed, [valueFunction |-> valueUtility',
                                                 iteration |-> iteration])
        /\ (pc = "sweep" /\ pc' = "while") => displayed' # displayed
      ]_vars

\* Three sweeps or more have been displayed, the last two with different
\* value functions.
C21_Witness ==
    /\ pc = "done"
    /\ Len(displayed) >= 3
    /\ displayed[Len(displayed)].valueFunction = valueUtility
    /\ displayed[Len(displayed) - 1].valueFunction # valueUtility

\* ------------------------------------------------------------------------
\* C22
\* ------------------------------------------------------------------------

\* C22: once the sweep loop has stopped, no step changes valueUtility: not
\* the policy loop, not a getAction call.
C22_ValueFunctionFrozen ==
    [][LoopStopped => valueUtility' = valueUtility]_vars

\* A getAction call for a state of stateSet has been answered and the value
\* function is still the one of the last sweep.
C22_Witness ==
    /\ pc = "done"
    /\ lastCall # << >>
    /\ lastCall[1].state \in Range(stateSet) \ finalStateSet
    /\ valueUtility = displayed[Len(displayed)].valueFunction
    /\ valueUtility[lastCall[1].state] # reward[lastCall[1].state]

\* ------------------------------------------------------------------------
\* C23
\* ------------------------------------------------------------------------

\* C23: after construction the policy has an entry for every state of
\* stateSet, final states included, and for nothing else; the entry of a
\* state is the action that actionMaximumExpectedUtility returns for it on
\* the final value function.
C23_PolicyTotal ==
    pc = "done" =>
        /\ DOMAIN policy = Range(stateSet)
        /\ \A s \in Range(stateSet) :
              policy[s] = actionMaximumExpectedUtility(s).action

\* A policy with an entry for a final state and the second action for a
\* state that is not final.
C23_Witness ==
    /\ pc = "done"
    /\ finalStateSet = {"s1"}
    /\ DOMAIN policy = {"s0", "s1"}
    /\ policy["s1"] = "a"
    /\ policy["s0"] = "b"

\* ------------------------------------------------------------------------
\* C25
\* ------------------------------------------------------------------------

NonNegativeInputs ==
    /\ \A s \in Range(stateSet) : ~fGt(Zero, reward[s])
    /\ fGt(discountFactor, Zero)
    /\ \A s \in Range(stateSet) : \A a \in Range(actionSet) :
          \A n \in DOMAIN transition[<<s, a>>] : ~fGt(Zero, transition[<<s, a>>][n])

\* C27: with rewards >= 0, discount > 0 and probabilities >= 0, the new
\* value of a state in a sweep is never below its previous value.
C27_MonotoneValues ==
    (NonNegativeInputs /\ pc = "sweep") =>
        \A s \in DOMAIN next_value_utility :
            ~fGt(valueUtility[s], next_value_utility[s])

\* ------------------------------------------------------------------------
\* C28
\* ------------------------------------------------------------------------

\* C28: num_eval is the number of points evaluated by the calls that
\* returned since the last reset_eval_counters, num_gradient_eval and
\* num_hessian_eval likewise for gradient and hessian; a call changes no
\* counter but its own, and only reset_eval_counters changes several.
C28_CountersCountPoints ==
    [][ /\ objective.num_eval = history.evals
        /\ objective.num_gradient_eval = history.gradients
        /\ objective.num_hessian_eval = history.hessians
        /\ objective'.num_eval = history'.evals
        /\ objective'.num_gradient_eval = history'.gradients
        /\ objective'.num_hessian_eval = history'.hessians
        /\ history'.last.op # "reset_eval_counters" =>
              /\ history'.last.op # "__call__" =>
                    objective'.num_eval = objective.num_eval
              /\ history'.last.op # "gradient" =>
                    objective'.num_gradient_eval = objective.num_gradient_eval
              /\ history'.last.op # "hessian" =>
                    objective'.num_hessian_eval = objective.num_hessian_eval
      ]_vars

\* A call on a 2-D array of two points has brought num_eval to 3, next to
\* two gradient evaluations and one hessian evaluation.
C28_Witness ==
    /\ history.last = Last("__call__", <<2, 2>>, "none")
    /\ objective.ndim = 2
    /\ objective.num_eval = 3
    /\ objective.num_gradient_eval = 2
    /\ objective.num_hessian_eval = 1

\* ------------------------------------------------------------------------
\* C29
\* ------------------------------------------------------------------------

\* C29: a call that raises for the shape of its input (wrong first
\* dimension, or more than two dimensions) leaves the three counters, the
\* logs and every other attribute as they were.
C29_RejectedCallChangesNothing ==
    [][(history'.last.op = "__call__" /\ history'.last.raised # "none") =>
           objective' = objective]_vars

\* A 3-D array whose first dimension is ndim has been rejected, on an
\* object that had counted two evaluations and logged two points.
C29_Witness ==
    /\ history.last = Last("__call__", <<1, 1, 1>>, "Exception")
    /\ objective.ndim = 1
    /\ objective.do_eval_logs
    /\ objective.num_eval = 2
    /\ Len(objective.eval_logs_dict.x) = 2

\* ------------------------------------------------------------------------
\* C30
\* ------------------------------------------------------------------------

\* C30: eval_logs_dict['x'] and eval_logs_dict['fx'] have the same length,
\* the number of points evaluated with do_eval_logs set since the last
\* reset_eval_logs; a call made with do_eval_logs unset leaves both as
\* they were.
C30_LogsCountPoints ==
    [][ /\ Len(objective.eval_logs_dict.x) = history.logged
        /\ Len(objective.eval_logs_dict.fx) = history.logged
        /\ Len(objective'.eval_logs_dict.x) = history'.logged
        /\ Len(objective'.eval_logs_dict.fx) = history'.logged
        /\ (history'.last.op = "__call__" /\ ~objective.do_eval_logs) =>
              objective'.eval_logs_dict = objective.eval_logs_dict
      ]_vars

\* A call on a 2-D array of two points in one dimension has been logged
\* after a call on one point; more points have been evaluated than logged.
C30_Witness ==
    /\ history.last = Last("__call__", <<1, 2>>, "none")
    /\ objective.ndim = 1
    /\ objective.do_eval_logs
    /\ objective.eval_logs_dict.x = <<<< >>, <<1>>, <<1>>>>
    /\ Len(objective.eval_logs_dict.fx) = 3
    /\ objective.num_eval = 2

=============================================================================
